---- MODULE Spec2Model ----
(***************************************************************************)
(* The helpdesk ticket pipeline of agents.py and the gateway adapter of    *)
(* granite_client.py.  Python strings are sequences of one-character       *)
(* strings, so that strip, upper, lower, title, the substring test and     *)
(* the regular expression are computed as Python computes them.            *)
(* Confidence scores are fixed-point numbers: Scale stands for 1.0.        *)
(***************************************************************************)
EXTENDS Integers, Sequences, FiniteSets, TLC

VARIABLES files, pc, ticket, category, context, reply, confidence,
          needs_escalation, escalation_message, gw, calls, result,
          stages, validation, logfile, logged, stats

\* The state of the application around the pipeline: the verdict of
\* validate_ticket_input on the submitted text, logs.csv, the records that
\* were handed to log_ticket_to_csv, and the statistics read last.
appvars == <<validation, logfile, logged, stats>>

vars == <<files, pc, ticket, category, context, reply, confidence,
          needs_escalation, escalation_message, gw, calls, result,
          stages, validation, logfile, logged, stats>>

----------------------------------------------------------------------------
(* Bounds of the model *)

\* Tickets are built from at most MaxWords words of Vocabulary.
MaxWords == 2

\* Number of decimal places a score keeps: Scale = 10^MaxFracDigits is 1.0.
MaxFracDigits == 3

----------------------------------------------------------------------------
(* Python str as a sequence of characters *)

LowerChars ==
    <<"a","b","c","d","e","f","g","h","i","j","k","l","m",
      "n","o","p","q","r","s","t","u","v","w","x","y","z">>

UpperChars ==
    <<"A","B","C","D","E","F","G","H","I","J","K","L","M",
      "N","O","P","Q","R","S","T","U","V","W","X","Y","Z">>

Digits == <<"0","1","2","3","4","5","6","7","8","9">>

Whitespace == {" ", "\n", "\t"}

IsLower(c) == \E i \in 1..Len(LowerChars) : LowerChars[i] = c

IsUpper(c) == \E i \in 1..Len(UpperChars) : UpperChars[i] = c

IsDigit(c) == \E i \in 1..Len(Digits) : Digits[i] = c

ToUpper(c) ==
    IF IsLower(c)
    THEN UpperChars[CHOOSE i \in 1..Len(LowerChars) : LowerChars[i] = c]
    ELSE c

ToLower(c) ==
    IF IsUpper(c)
    THEN LowerChars[CHOOSE i \in 1..Len(UpperChars) : UpperChars[i] = c]
    ELSE c

\* str.upper()
upper(s) == [i \in 1..Len(s) |-> ToUpper(s[i])]

\* str.lower()
lower(s) == [i \in 1..Len(s) |-> ToLower(s[i])]

\* str.title(): a letter that follows a letter is lowered, any other letter
\* is raised.
title(s) ==
    [i \in 1..Len(s) |->
        IF i > 1 /\ (IsLower(s[i-1]) \/ IsUpper(s[i-1]))
        THEN ToLower(s[i])
        ELSE ToUpper(s[i])]

\* str.strip()
strip(s) ==
    LET keep == {i \in 1..Len(s) : s[i] \notin Whitespace}
    IN  IF keep = {}
        THEN <<>>
        ELSE SubSeq(s, CHOOSE i \in keep : \A j \in keep : i <= j,
                       CHOOSE i \in keep : \A j \in keep : j <= i)

Max(a, b) == IF a >= b THEN a ELSE b
Min(a, b) == IF a <= b THEN a ELSE b

\* needle in hay
Contains(hay, needle) ==
    \E i \in 0..(Len(hay) - Len(needle)) :
        SubSeq(hay, i + 1, i + Len(needle)) = needle

\* sep.join(parts)
RECURSIVE join(_, _)
join(sep, parts) ==
    IF Len(parts) = 0 THEN <<>>
    ELSE IF Len(parts) = 1 THEN parts[1]
    ELSE parts[1] \o sep \o join(sep, Tail(parts))

\* sum(1 for keyword in keywords if keyword in text)
CountMatches(keywords, text) ==
    Cardinality({i \in 1..Len(keywords) : Contains(text, keywords[i])})

\* s.count(sub): the occurrences of sub in s that do not overlap, from the left.
RECURSIVE CountFrom(_, _, _)
CountFrom(s, sub, i) ==
    LET found == {j \in i..(Len(s) - Len(sub) + 1) :
                     SubSeq(s, j, j + Len(sub) - 1) = sub}
    IN  IF found = {} THEN 0
        ELSE LET first == CHOOSE j \in found : \A k \in found : j <= k
             IN  1 + CountFrom(s, sub, first + Max(1, Len(sub)))

count(s, sub) == CountFrom(s, sub, 1)

\* c * n
Repeat(c, n) == [i \in 1..n |-> c]

RECURSIVE Pow10(_)
Pow10(n) == IF n = 0 THEN 1 ELSE 10 * Pow10(n - 1)

Scale == Pow10(MaxFracDigits)

----------------------------------------------------------------------------
(* granite_client.py *)

GatewayApology ==
    <<"I"," ","a","p","o","l","o","g","i","z","e",","," ","b","u","t"," ","I","'","m"," ","c","u","r","r","e","n","t","l","y"," ","u","n","a","b","l","e"," ","t","o"," ","p","r","o","c","e","s","s"," ","y","o","u","r"," ","r","e","q","u","e","s","t"," ","d","u","e"," ","t","o"," ","a"," ","t","e","c","h","n","i","c","a","l"," ","i","s","s","u","e","."," ","P","l","e","a","s","e"," ","t","r","y"," ","a","g","a","i","n"," ","l","a","t","e","r"," ","o","r"," ","c","o","n","t","a","c","t"," ","I","T"," ","s","u","p","p","o","r","t","."," ","E","r","r","o","r",":"," ">>

\* One call of the gateway: model.generate_text (or the set-up before it)
\* either raises an exception whose str() is call.text, or returns call.text.
\* The result says whether the call raised to its caller, and what it returned:
\* the except clause turns every exception into a returned text.
Returned(text) == [raised |-> FALSE, value |-> text]

Raised == [raised |-> TRUE, value |-> <<>>]

\* get_granite_response letting the exception out to its caller.
get_granite_response_reraising(call) ==
    IF call.raises
    THEN Raised
    ELSE LET cleaned_response == strip(call.text)
         IN  IF /\ Len(cleaned_response) > 0
                /\ Head(cleaned_response) = "\""
                /\ cleaned_response[Len(cleaned_response)] = "\""
             THEN Returned(SubSeq(cleaned_response, 2, Len(cleaned_response) - 1))
             ELSE Returned(cleaned_response)

get_granite_response(call) ==
    IF call.raises
    THEN Returned(GatewayApology \o call.text)
    ELSE LET cleaned_response == strip(call.text)
         IN  IF /\ Len(cleaned_response) > 0
                /\ Head(cleaned_response) = "\""
                /\ cleaned_response[Len(cleaned_response)] = "\""
             THEN Returned(SubSeq(cleaned_response, 2, Len(cleaned_response) - 1))
             ELSE Returned(cleaned_response)

----------------------------------------------------------------------------
(* agents.py: the Classifier *)

IT == <<"I","T">>
HR == <<"H","R">>
Finance == <<"F","i","n","a","n","c","e">>
Admin == <<"A","d","m","i","n">>
Other == <<"O","t","h","e","r">>

Categories == {IT, HR, Finance, Admin, Other}

valid_categories ==
    << <<"I","T">>, <<"H","R">>, <<"F","I","N","A","N","C","E">>,
       <<"A","D","M","I","N">>, <<"O","T","H","E","R">> >>

it_keywords ==
    << <<"v","p","n">>,
       <<"p","a","s","s","w","o","r","d">>,
       <<"l","o","g","i","n">>,
       <<"c","o","m","p","u","t","e","r">>,
       <<"l","a","p","t","o","p">>,
       <<"s","o","f","t","w","a","r","e">>,
       <<"n","e","t","w","o","r","k">>,
       <<"e","m","a","i","l">>,
       <<"i","n","t","e","r","n","e","t">>,
       <<"w","i","f","i">>,
       <<"s","y","s","t","e","m">>,
       <<"t","e","c","h","n","i","c","a","l">>,
       <<"h","a","r","d","w","a","r","e">>,
       <<"m","o","u","s","e">>,
       <<"k","e","y","b","o","a","r","d">>,
       <<"m","o","n","i","t","o","r">> >>

hr_keywords ==
    << <<"l","e","a","v","e">>,
       <<"v","a","c","a","t","i","o","n">>,
       <<"s","i","c","k">>,
       <<"h","o","l","i","d","a","y">>,
       <<"h","r">>,
       <<"h","u","m","a","n"," ","r","e","s","o","u","r","c","e","s">>,
       <<"e","m","p","l","o","y","m","e","n","t">>,
       <<"m","a","n","a","g","e","r">>,
       <<"p","o","l","i","c","y">>,
       <<"m","a","t","e","r","n","i","t","y">>,
       <<"p","a","t","e","r","n","i","t","y">> >>

finance_keywords ==
    << <<"s","a","l","a","r","y">>,
       <<"p","a","y","r","o","l","l">>,
       <<"r","e","i","m","b","u","r","s","e","m","e","n","t">>,
       <<"e","x","p","e","n","s","e">>,
       <<"p","a","y","m","e","n","t">>,
       <<"f","i","n","a","n","c","e">>,
       <<"m","o","n","e","y">>,
       <<"t","a","x">>,
       <<"b","o","n","u","s">>,
       <<"o","v","e","r","t","i","m","e">>,
       <<"r","e","c","e","i","p","t">> >>

admin_keywords ==
    << <<"a","d","m","i","n">>,
       <<"a","d","m","i","n","i","s","t","r","a","t","i","o","n">>,
       <<"o","f","f","i","c","e">>,
       <<"s","u","p","p","l","i","e","s">>,
       <<"c","a","l","e","n","d","a","r">>,
       <<"m","e","e","t","i","n","g">>,
       <<"r","o","o","m">>,
       <<"b","o","o","k","i","n","g">>,
       <<"f","a","c","i","l","i","t","y">> >>

\* The scores dictionary, in insertion order.
scores(ticket_text) ==
    LET text_lower == lower(ticket_text)
    IN  << [name |-> IT,      score |-> CountMatches(it_keywords, text_lower)],
           [name |-> HR,      score |-> CountMatches(hr_keywords, text_lower)],
           [name |-> Finance, score |-> CountMatches(finance_keywords, text_lower)],
           [name |-> Admin,   score |-> CountMatches(admin_keywords, text_lower)] >>

\* max_category with ties going to the last key instead of the first.
max_category_last_wins(sc) ==
    LET best == CHOOSE i \in 1..Len(sc) :
                    /\ \A j \in 1..Len(sc) : sc[j].score <= sc[i].score
                    /\ \A j \in (i + 1)..Len(sc) : sc[j].score < sc[i].score
    IN  sc[best]

\* max(scores, key=scores.get): the first key whose value no other exceeds.
max_category(sc) ==
    LET best == CHOOSE i \in 1..Len(sc) :
                    /\ \A j \in 1..Len(sc) : sc[j].score <= sc[i].score
                    /\ \A j \in 1..(i - 1) : sc[j].score < sc[i].score
    IN  sc[best]

_fallback_classification(ticket_text) ==
    LET m == max_category(scores(ticket_text))
    IN  IF m.score = 0 THEN Other ELSE m.name

\* classify_ticket answering Other, without the keyword fallback, when the
\* gateway's answer is no label.
classify_ticket_no_fallback(ticket_text, call) ==
    LET response == get_granite_response(call)
        cat == upper(strip(response.value))
    IN  IF response.raised
        THEN _fallback_classification(ticket_text)
        ELSE IF \E i \in 1..Len(valid_categories) : valid_categories[i] = cat
        THEN title(cat)
        ELSE Other

classify_ticket(ticket_text, call) ==
    LET response == get_granite_response(call)
        cat == upper(strip(response.value))
    IN  IF response.raised
        THEN _fallback_classification(ticket_text)
        ELSE IF \E i \in 1..Len(valid_categories) : valid_categories[i] = cat
        THEN title(cat)
        ELSE _fallback_classification(ticket_text)

----------------------------------------------------------------------------
(* agents.py: the Retriever *)

KnowledgeFiles ==
    {"vpn_policy.txt", "leave_policy.txt", "reimbursement_policy.txt",
     "salary_policy.txt", "hardware_issuance.txt", "holiday_calendar.txt"}

\* What f.read() returns for each file of knowledge_base/.
FileText(filename) ==
    CASE filename = "vpn_policy.txt"           -> <<"v","p","n"," ","r","u","l","e","s","\n">>
      [] filename = "leave_policy.txt"         -> <<"l","e","a","v","e"," ","r","u","l","e","s","\n">>
      [] filename = "reimbursement_policy.txt" -> <<"c","l","a","i","m","s","\n">>
      [] filename = "salary_policy.txt"        -> <<" ","p","a","y">>
      [] filename = "hardware_issuance.txt"    -> <<"l","a","p","t","o","p","s","\n">>
      [] filename = "holiday_calendar.txt"     -> <<"h","o","l","i","d","a","y","s","\n">>

category_files ==
    [c \in {IT, HR, Finance, Admin} |->
        CASE c = IT      -> "vpn_policy.txt"
          [] c = HR      -> "leave_policy.txt"
          [] c = Finance -> "reimbursement_policy.txt"
          [] c = Admin   -> "hardware_issuance.txt"]

NoPolicyFound == <<"N","o"," ","p","o","l","i","c","y"," ","f","o","u","n","d",".">>

\* The texts of those of filenames that exist, in order.
RECURSIVE ReadExisting(_, _)
ReadExisting(filenames, present) ==
    IF Len(filenames) = 0 THEN <<>>
    ELSE (IF Head(filenames) \in present
          THEN <<strip(FileText(Head(filenames)))>>
          ELSE <<>>) \o ReadExisting(Tail(filenames), present)

retrieve_context(cat, present) ==
    IF cat \in DOMAIN category_files
    THEN IF category_files[cat] \in present
         THEN strip(FileText(category_files[cat]))
         ELSE NoPolicyFound
    ELSE IF cat = Finance
    THEN LET contexts == ReadExisting(<<"reimbursement_policy.txt", "salary_policy.txt">>, present)
         IN  IF Len(contexts) > 0 THEN join(<<"\n", "\n">>, contexts) ELSE NoPolicyFound
    ELSE IF cat = Admin
    THEN LET contexts == ReadExisting(<<"hardware_issuance.txt", "holiday_calendar.txt">>, present)
         IN  IF Len(contexts) > 0 THEN join(<<"\n", "\n">>, contexts) ELSE NoPolicyFound
    ELSE NoPolicyFound

----------------------------------------------------------------------------
(* agents.py: the Responder *)

FallbackReply ==
    <<"T","h","a","n","k"," ","y","o","u"," ","f","o","r"," ","y","o","u","r"," ","i","n","q","u","i","r","y","."," ","I","'","m"," ","c","u","r","r","e","n","t","l","y"," ","e","x","p","e","r","i","e","n","c","i","n","g"," ","t","e","c","h","n","i","c","a","l"," ","d","i","f","f","i","c","u","l","t","i","e","s","."," ","P","l","e","a","s","e"," ","c","o","n","t","a","c","t"," ","o","u","r"," ","s","u","p","p","o","r","t"," ","t","e","a","m"," ","d","i","r","e","c","t","l","y"," ","f","o","r"," ","i","m","m","e","d","i","a","t","e"," ","a","s","s","i","s","t","a","n","c","e",".">>

\* generate_reply without a reply when the gateway call fails.
generate_reply_unguarded(ticket_text, ctx, call) ==
    IF call.raises THEN <<"None">> ELSE get_granite_response(call).value

generate_reply(ticket_text, ctx, call) ==
    LET response == get_granite_response(call)
    IN  IF response.raised THEN FallbackReply ELSE response.value

----------------------------------------------------------------------------
(* agents.py: the Confidence agent *)

specific_terms ==
    << <<"c","o","n","t","a","c","t">>,
       <<"p","o","r","t","a","l">>,
       <<"p","o","l","i","c","y">>,
       <<"p","r","o","c","e","d","u","r","e">>,
       <<"e","m","a","i","l">>,
       <<"p","h","o","n","e">> >>

error_terms ==
    << <<"e","r","r","o","r">>,
       <<"u","n","a","b","l","e">>,
       <<"t","e","c","h","n","i","c","a","l"," ","i","s","s","u","e">>,
       <<"t","r","y"," ","a","g","a","i","n">> >>

DigitVal(c) == (CHOOSE i \in 1..Len(Digits) : Digits[i] = c) - 1

\* Length of the run of digits of s that starts at position j.
RECURSIVE DigitRun(_, _)
DigitRun(s, j) ==
    IF j <= Len(s) /\ IsDigit(s[j]) THEN 1 + DigitRun(s, j + 1) ELSE 0

\* re.findall(r'0\.\d+|1\.0|0|1', s)[:1]: every alternative starts with 0
\* or 1, so the first match starts at the first 0 or 1 of s, and the
\* alternatives are tried there in order.
first_number(s) ==
    LET at == {i \in 1..Len(s) : s[i] \in {"0", "1"}}
    IN  IF at = {} THEN <<>>
        ELSE LET i == CHOOSE k \in at : \A j \in at : k <= j
             IN  IF /\ s[i] = "0"
                    /\ i + 2 <= Len(s)
                    /\ s[i+1] = "."
                    /\ IsDigit(s[i+2])
                 THEN <<SubSeq(s, i, i + 1 + DigitRun(s, i + 2))>>
                 ELSE IF /\ s[i] = "1"
                         /\ i + 2 <= Len(s)
                         /\ s[i+1] = "."
                         /\ s[i+2] = "0"
                 THEN <<SubSeq(s, i, i + 2)>>
                 ELSE <<SubSeq(s, i, i)>>

\* float(tok) for a token of first_number, in units of 1/Scale.
RECURSIVE Fraction(_, _)
Fraction(ds, k) ==
    IF Len(ds) = 0 \/ k > MaxFracDigits THEN 0
    ELSE DigitVal(Head(ds)) * (Scale \div Pow10(k)) + Fraction(Tail(ds), k + 1)

float(tok) ==
    DigitVal(tok[1]) * Scale
        + (IF Len(tok) > 2 THEN Fraction(SubSeq(tok, 3, Len(tok)), 1) ELSE 0)

\* _calculate_fallback_confidence adding 0.05 for every occurrence of a
\* specificity term instead of once for each term that is present.
RECURSIVE SumCounts(_, _)
SumCounts(terms, text) ==
    IF Len(terms) = 0 THEN 0
    ELSE count(text, Head(terms)) + SumCounts(Tail(terms), text)

_calculate_fallback_confidence_per_occurrence(ticket_text, response) ==
    LET base     == (5 * Scale) \div 10
        detailed == IF Len(response) > 100 THEN Scale \div 10 ELSE 0
        specific == SumCounts(specific_terms, lower(response)) * ((5 * Scale) \div 100)
        errors   == CountMatches(error_terms, lower(response)) * ((2 * Scale) \div 10)
    IN  Max(0, Min(Scale, base + detailed + specific - errors))

\* _calculate_fallback_confidence without its final clamp.
_calculate_fallback_confidence_unclamped(ticket_text, response) ==
    LET base     == (5 * Scale) \div 10
        detailed == IF Len(response) > 100 THEN Scale \div 10 ELSE 0
        specific == CountMatches(specific_terms, lower(response)) * ((5 * Scale) \div 100)
        errors   == CountMatches(error_terms, lower(response)) * ((2 * Scale) \div 10)
    IN  base + detailed + specific - errors

_calculate_fallback_confidence(ticket_text, response) ==
    LET base     == (5 * Scale) \div 10
        detailed == IF Len(response) > 100 THEN Scale \div 10 ELSE 0
        specific == CountMatches(specific_terms, lower(response)) * ((5 * Scale) \div 100)
        errors   == CountMatches(error_terms, lower(response)) * ((2 * Scale) \div 10)
    IN  Max(0, Min(Scale, base + detailed + specific - errors))

rate_confidence(ticket_text, response, call) ==
    LET confidence_response == get_granite_response(call)
        numbers == first_number(confidence_response.value)
    IN  IF confidence_response.raised
        THEN _calculate_fallback_confidence(ticket_text, response)
        ELSE IF Len(numbers) > 0
        THEN Max(0, Min(Scale, float(numbers[1])))
        ELSE _calculate_fallback_confidence(ticket_text, response)

----------------------------------------------------------------------------
(* agents.py: escalation *)

EscalationMessage ==
    <<"W","e"," ","a","r","e"," ","f","o","r","w","a","r","d","i","n","g"," ","t","h","i","s"," ","t","o"," ","a"," ","h","u","m","a","n"," ","s","u","p","p","o","r","t"," ","a","g","e","n","t"," ","f","o","r"," ","f","u","r","t","h","e","r"," ","r","e","v","i","e","w",".">>

\* should_escalate escalating at the threshold too.
should_escalate_at_threshold(confidence_score) ==
    IF confidence_score <= (6 * Scale) \div 10
    THEN <<TRUE, EscalationMessage>>
    ELSE <<FALSE, <<>>>>

should_escalate(confidence_score) ==
    IF confidence_score < (6 * Scale) \div 10
    THEN <<TRUE, EscalationMessage>>
    ELSE <<FALSE, <<>>>>

----------------------------------------------------------------------------
(* utils.py: validate_ticket_input *)

MinTicketLength == 10

MaxTicketLength == 2000

MaxRepetitions == 5

\* s.split(): the maximal runs of characters that are not whitespace.
split(s) ==
    LET starts == {i \in 1..Len(s) :
                      s[i] \notin Whitespace /\ (i = 1 \/ s[i-1] \in Whitespace)}
        ends   == {i \in 1..Len(s) :
                      s[i] \notin Whitespace /\ (i = Len(s) \/ s[i+1] \in Whitespace)}
        nth(S, k) == CHOOSE i \in S : Cardinality({j \in S : j < i}) = k - 1
    IN  [k \in 1..Cardinality(starts) |-> SubSeq(s, nth(starts, k), nth(ends, k))]

Verdict(ok, message) == [is_valid |-> ok, error_message |-> message]

\* validate_ticket_input rejecting a text of exactly 2000 characters.
validate_ticket_input_below_maximum(ticket_text) ==
    LET cleaned_text == strip(ticket_text)
    IN  IF Len(ticket_text) = 0 \/ Len(cleaned_text) = 0
        THEN Verdict(FALSE, "Please enter a ticket description.")
        ELSE IF Len(cleaned_text) < MinTicketLength
        THEN Verdict(FALSE, "Ticket description must be at least 10 characters long.")
        ELSE IF Len(cleaned_text) >= MaxTicketLength
        THEN Verdict(FALSE, "Ticket description must be less than 2000 characters.")
        ELSE IF count(lower(cleaned_text), lower(split(cleaned_text)[1])) > MaxRepetitions
        THEN Verdict(FALSE, "Ticket appears to contain repetitive content.")
        ELSE Verdict(TRUE, "")

validate_ticket_input(ticket_text) ==
    LET cleaned_text == strip(ticket_text)
    IN  IF Len(ticket_text) = 0 \/ Len(cleaned_text) = 0
        THEN Verdict(FALSE, "Please enter a ticket description.")
        ELSE IF Len(cleaned_text) < MinTicketLength
        THEN Verdict(FALSE, "Ticket description must be at least 10 characters long.")
        ELSE IF Len(cleaned_text) > MaxTicketLength
        THEN Verdict(FALSE, "Ticket description must be less than 2000 characters.")
        ELSE IF count(lower(cleaned_text), lower(split(cleaned_text)[1])) > MaxRepetitions
        THEN Verdict(FALSE, "Ticket appears to contain repetitive content.")
        ELSE Verdict(TRUE, "")

\* The verdict before any text was submitted.
NotValidated == Verdict(FALSE, "not validated")

----------------------------------------------------------------------------
(* Inputs *)

\* A first token is repeated up to MaxTokenRepeats times.
MaxTokenRepeats == 7

\* The tickets of the keyword fallback repeat at most MaxKeywordWords words.
MaxKeywordWords == 5

\* log_ticket_to_csv is called directly at most MaxLogged times.
MaxLogged == 3

\* The application logs at most MaxSubmissions accepted tickets.
MaxSubmissions == 2

Vocabulary ==
    { <<"V","P","N">>,
      <<"l","e","a","v","e">>,
      <<"t","a","x">>,
      <<"a","d","m","i","n","i","s","t","r","a","t","i","o","n">>,
      <<"h","e","l","l","o">> }

RECURSIVE WordLists(_)
WordLists(n) ==
    IF n = 0 THEN {<<>>}
    ELSE LET shorter == WordLists(n - 1)
         IN  shorter \cup {Append(ws, w) : ws \in {x \in shorter : Len(x) = n - 1},
                                           w \in Vocabulary}

Tickets == {join(<<" ">>, ws) : ws \in WordLists(MaxWords) \ {<<>>}}

\* Tickets that repeat keywords: one keyword of it_keywords, in capitals,
\* and two of hr_keywords.
KeywordVocabulary ==
    { <<"V","P","N">>,
      <<"l","e","a","v","e">>,
      <<"v","a","c","a","t","i","o","n">> }

RECURSIVE KeywordLists(_)
KeywordLists(n) ==
    IF n = 0 THEN {<<>>}
    ELSE LET shorter == KeywordLists(n - 1)
         IN  shorter \cup {Append(ws, w) : ws \in {x \in shorter : Len(x) = n - 1},
                                           w \in KeywordVocabulary}

KeywordTickets ==
    {join(<<" ">>, ws) : ws \in KeywordLists(MaxKeywordWords) \ {<<>>}}

\* The tickets of the end-to-end runs.
ExampleTickets ==
    { <<"I"," ","c","a","n","'","t"," ","a","c","c","e","s","s"," ","t","h","e"," ","V","P","N"," ","f","r","o","m"," ","h","o","m","e",".">>,
      <<"s","i","c","k"," ","l","e","a","v","e">>,
      <<"h","e","l","l","o">> }

\* Texts around the two length limits, bare and with whitespace around.
TicketLengths == (0..12) \cup (1998..2002)

LengthTickets ==
    UNION { { Repeat("x", n),
              <<" ">> \o Repeat("x", n) \o <<"\n">>,
              <<"\t", " ">> \o Repeat("x", n) } : n \in TicketLengths }

FirstTokens ==
    { <<"I">>,
      <<"a","b">>,
      <<"H","e","l","p">>,
      <<"a">> }

\* Ten characters that hold none of FirstTokens.
Filler == Repeat("x", 10)

\* The token w k times as a token of its own, then the filler.
RECURSIVE Repeated(_, _)
Repeated(w, k) ==
    IF k = 0 THEN Filler ELSE w \o <<" ">> \o Repeated(w, k - 1)

\* The token w once as a token, then k words that hold it inside.
RECURSIVE Inside(_, _)
Inside(w, k) ==
    IF k = 0 THEN Filler ELSE <<"x">> \o lower(w) \o <<"x", " ">> \o Inside(w, k - 1)

RepetitiveTickets ==
    { Repeated(w, k) : w \in FirstTokens, k \in 1..MaxTokenRepeats }
        \cup { w \o <<" ">> \o Inside(w, k) : w \in FirstTokens, k \in 1..MaxTokenRepeats }

\* A ticket that starts with "I" and holds eleven letters i in all.
WifiTicket ==
    <<"I"," ","t","h","i","n","k"," ","w","i","f","i"," ","i","s"," ","f","a","i","l","i","n","g"," ","i","n"," ","t","h","i","s"," ","b","u","i","l","d","i","n","g">>

ValidationTickets ==
    LengthTickets \cup RepetitiveTickets \cup ExampleTickets \cup {WifiTicket}

\* str(e) of the exceptions the gateway can raise.
ErrorTexts ==
    { <<"t","i","m","e","d"," ","o","u","t">>,
      <<"s","t","a","t","u","s"," ","4","0","1">> }

Failures == [raises : {TRUE}, text : ErrorTexts]

\* What model.generate_text can return to each of the three agents.
ClassifyTexts ==
    { <<"I","T">>,
      <<" ","h","r","\n">>,
      <<"F","i","n","a","n","c","e">>,
      <<"\"","A","d","m","i","n","\"">>,
      <<"O","T","H","E","R">>,
      <<"C","a","t","e","g","o","r","y",":"," ","I","T">> }

ReplyTexts ==
    { <<>>,
      <<" "," ">>,
      <<"\"","\"">>,
      <<"O","p","e","n"," ","t","h","e"," ","p","o","r","t","a","l",".">>,
      <<"P","l","e","a","s","e"," ","c","o","n","t","a","c","t"," ","t","h","e"," ","I","T"," ","h","e","l","p","d","e","s","k"," ","b","y"," ","e","m","a","i","l"," ","o","r"," ","p","h","o","n","e",","," ","o","r"," ","o","p","e","n"," ","t","h","e"," ","s","e","l","f","-","s","e","r","v","i","c","e"," ","p","o","r","t","a","l",";"," ","t","h","e"," ","V","P","N"," ","p","o","l","i","c","y"," ","a","n","d"," ","t","h","e"," ","r","e","s","e","t"," ","p","r","o","c","e","d","u","r","e"," ","a","r","e"," ","d","e","s","c","r","i","b","e","d"," ","t","h","e","r","e",".">> }

ScoreTexts ==
    { <<"0",".","8","5">>,
      <<"1",".","0">>,
      <<"0">>,
      <<"I"," ","r","a","t","e"," ","i","t"," ","0",".","4">>,
      <<"h","i","g","h">> }

\* A reply of 150 characters that holds "contact" twice, "policy" once and
\* no other term of the heuristic.
Reply150 ==
    <<"P","l","e","a","s","e"," ","c","o","n","t","a","c","t"," ","y","o","u","r"," ","m","a","n","a","g","e","r"," ","f","i","r","s","t","."," ","T","h","e"," ","t","r","a","v","e","l"," ","p","o","l","i","c","y"," ","c","o","v","e","r","s"," ","t","r","a","i","n"," ","a","n","d"," ","h","o","t","e","l"," ","c","o","s","t","s",";"," ","c","o","n","t","a","c","t"," ","t","h","e"," ","t","r","a","v","e","l"," ","d","e","s","k"," ","w","i","t","h"," ","t","h","e"," ","b","o","o","k","i","n","g"," ","r","e","f","e","r","e","n","c","e"," ","f","o","r"," ","a","n","y"," ","c","h","a","n","g","e","s",".">>

\* More replies for the scorer: replies of 100 and of 101 characters, and
\* replies with two and with four of the specificity terms.
MoreReplyTexts ==
    { Repeat("x", 100),
      Repeat("x", 101),
      Reply150,
      <<"S","e","e"," ","t","h","e"," ","p","o","l","i","c","y"," ","o","n"," ","t","h","e"," ","p","o","r","t","a","l",","," ","o","r"," ","e","m","a","i","l"," ","o","r"," ","p","h","o","n","e"," ","u","s",".">> }

\* More answers to the confidence prompt, around the escalation threshold.
MoreScoreTexts ==
    { <<"0",".","5","9">>,
      <<"0",".","6">>,
      <<"0",".","6","0">>,
      <<"0",".","6","1">> }

ClassifyCalls == [raises : {FALSE}, text : ClassifyTexts] \cup Failures
ReplyCalls    == [raises : {FALSE}, text : ReplyTexts] \cup Failures
ScoreCalls    == [raises : {FALSE}, text : ScoreTexts] \cup Failures

----------------------------------------------------------------------------
(* process_ticket_pipeline as a state machine *)

\* The value of a local variable that is not yet assigned.
None == <<"None">>

----------------------------------------------------------------------------
(* utils.py: logs.csv, log_ticket_to_csv, create_sample_logs_if_empty,
   get_ticket_statistics.  The file is the sequence of its rows and a row
   is the sequence of its fields; the quoting of the csv module and its
   reading back by pandas are not modelled. *)

\* logs.csv when os.path.exists(LOGS_FILE) is false.
Absent == [exists |-> FALSE, rows |-> <<>>]

\* logs.csv holding the given rows; no rows is a file of zero bytes.
File(rows) == [exists |-> TRUE, rows |-> rows]

headers ==
    << <<"t","i","m","e","s","t","a","m","p">>,
       <<"t","i","c","k","e","t","_","t","e","x","t">>,
       <<"c","a","t","e","g","o","r","y">>,
       <<"c","o","n","f","i","d","e","n","c","e","_","s","c","o","r","e">>,
       <<"f","i","n","a","l","_","r","e","p","l","y">>,
       <<"n","e","e","d","s","_","e","s","c","a","l","a","t","i","o","n">>,
       <<"e","s","c","a","l","a","t","i","o","n","_","m","e","s","s","a","g","e">> >>

\* datetime.now().strftime(...): the clock is not modelled, every record
\* carries the same text.
Timestamp == <<"2","0","2","4","-","0","1","-","0","1"," ","1","2",":","0","0",":","0","0">>

\* The digits of f / 10^k after the decimal point as repr(float) writes
\* them: no trailing zero, at least one digit.
RECURSIVE FracText(_, _)
FracText(f, k) ==
    IF k = 0 THEN <<>>
    ELSE <<Digits[(f \div Pow10(k - 1)) + 1]>>
             \o (IF f % Pow10(k - 1) = 0 THEN <<>>
                 ELSE FracText(f % Pow10(k - 1), k - 1))

\* str(x) of a float x in 0.0 .. 1.0, as csv.writer writes a float.
str_float(x) ==
    <<Digits[(x \div Scale) + 1], ".">> \o FracText(x % Scale, MaxFracDigits)

\* str(b) of a bool.
str_bool(b) == IF b THEN <<"T","r","u","e">> ELSE <<"F","a","l","s","e">>

TicketTextLimit == 500

FinalReplyLimit == 1000

\* s[:n]
Prefix(s, n) == SubSeq(s, 1, Min(n, Len(s)))

row_data(ticket_data) ==
    << Timestamp,
       Prefix(ticket_data.original_ticket, TicketTextLimit),
       ticket_data.category,
       str_float(ticket_data.confidence_score),
       Prefix(ticket_data.reply, FinalReplyLimit),
       str_bool(ticket_data.needs_escalation),
       ticket_data.escalation_message >>

\* open(LOGS_FILE, "a"): the header is written when the file did not exist
\* before the call, then the row.
log_ticket_to_csv(file, ticket_data) ==
    IF ~file.exists
    THEN File(<<headers, row_data(ticket_data)>>)
    ELSE File(Append(file.rows, row_data(ticket_data)))

sample_tickets ==
    << [original_ticket    |-> <<"C","a","n","'","t"," ","c","o","n","n","e","c","t"," ","t","o"," ","V","P","N"," ","f","r","o","m"," ","h","o","m","e"," ","o","f","f","i","c","e">>,
        category           |-> <<"I","T">>,
        reply              |-> <<"P","l","e","a","s","e"," ","u","s","e"," ","v","p","n",".","c","o","m","p","a","n","y",".","c","o","m"," ","w","i","t","h"," ","y","o","u","r"," ","e","m","p","l","o","y","e","e"," ","I","D"," ","t","o"," ","c","o","n","n","e","c","t",".",".",".">>,
        confidence_score   |-> (85 * Scale) \div 100,
        needs_escalation   |-> FALSE,
        escalation_message |-> <<>>],
       [original_ticket    |-> <<"H","o","w"," ","m","a","n","y"," ","v","a","c","a","t","i","o","n"," ","d","a","y","s"," ","d","o"," ","I"," ","h","a","v","e","?">>,
        category           |-> <<"H","R">>,
        reply              |-> <<"A","c","c","o","r","d","i","n","g"," ","t","o"," ","o","u","r"," ","l","e","a","v","e"," ","p","o","l","i","c","y",","," ","y","o","u"," ","h","a","v","e"," ","2","5"," ","v","a","c","a","t","i","o","n"," ","d","a","y","s",".",".",".">>,
        confidence_score   |-> (92 * Scale) \div 100,
        needs_escalation   |-> FALSE,
        escalation_message |-> <<>>],
       [original_ticket    |-> <<"M","y"," ","s","a","l","a","r","y"," ","w","a","s"," ","p","r","o","c","e","s","s","e","d"," ","i","n","c","o","r","r","e","c","t","l","y">>,
        category           |-> <<"F","i","n","a","n","c","e">>,
        reply              |-> <<"T","h","a","n","k"," ","y","o","u"," ","f","o","r"," ","r","e","p","o","r","t","i","n","g"," ","t","h","i","s"," ","i","s","s","u","e","."," ","I","'","l","l"," ","c","o","n","n","e","c","t"," ","y","o","u"," ","w","i","t","h"," ","p","a","y","r","o","l","l",".",".",".">>,
        confidence_score   |-> (45 * Scale) \div 100,
        needs_escalation   |-> TRUE,
        escalation_message |-> EscalationMessage] >>

\* os.path.exists(LOGS_FILE) is false or os.path.getsize(LOGS_FILE) is 0.
IsEmptyLog(file) == ~file.exists \/ Len(file.rows) = 0

create_sample_logs_if_empty(file) ==
    IF IsEmptyLog(file)
    THEN log_ticket_to_csv(
             log_ticket_to_csv(
                 log_ticket_to_csv(file, sample_tickets[1]),
                 sample_tickets[2]),
             sample_tickets[3])
    ELSE file

\* What get_ticket_statistics returns for a missing or empty log and from
\* its except branch.
NoStatistics ==
    [total_tickets      |-> 0,
     category_breakdown |-> <<>>,
     average_confidence |-> 0,
     escalation_rate    |-> 0,
     recent_tickets     |-> <<>>]

\* The statistics before get_ticket_statistics was called.
NotRead == [NoStatistics EXCEPT !.total_tickets = -1]

\* The position of a column name in the first row, 0 when it is missing.
ColumnOf(columns, name) ==
    IF \E i \in 1..Len(columns) : columns[i] = name
    THEN CHOOSE i \in 1..Len(columns) :
             /\ columns[i] = name
             /\ \A j \in 1..(i - 1) : columns[j] # name
    ELSE 0

\* A field that pandas reads as a float: one digit, or one digit, a point
\* and digits, which are the texts str_float writes.
IsFloatText(f) ==
    /\ Len(f) >= 1
    /\ IsDigit(f[1])
    /\ \/ Len(f) = 1
       \/ /\ Len(f) >= 3
          /\ f[2] = "."
          /\ DigitRun(f, 3) = Len(f) - 2

IsBoolText(f) == f \in {str_bool(TRUE), str_bool(FALSE)}

RECURSIVE SumFloats(_, _)
SumFloats(df, c) ==
    IF Len(df) = 0 THEN 0 ELSE float(Head(df)[c]) + SumFloats(Tail(df), c)

\* How round() resolves a decimal tie: the binary value of the float lies
\* on either side of it.
TieDirections == {"down", "up"}

\* round() cutting the digits off instead of rounding.
Round_down(a, b, tie) == a \div b

\* a / b rounded to the nearest integer.
Round(a, b, tie) ==
    LET q == a \div b
        r == a % b
    IN  IF 2 * r < b THEN q
        ELSE IF 2 * r > b THEN q + 1
        ELSE IF tie = "up" THEN q + 1 ELSE q

\* average_confidence is in units of 1/Scale, escalation_rate in tenths of
\* a percent.
get_ticket_statistics(file, tie) ==
    IF ~file.exists THEN NoStatistics
    ELSE IF Len(file.rows) = 0 THEN NoStatistics
    ELSE
        LET columns == Head(file.rows)
            df      == Tail(file.rows)
            total_tickets == Len(df)
            column(name) == ColumnOf(columns, name)
            category_col    == column(<<"c","a","t","e","g","o","r","y">>)
            confidence_col  == column(<<"c","o","n","f","i","d","e","n","c","e","_","s","c","o","r","e">>)
            escalation_col  == column(<<"n","e","e","d","s","_","e","s","c","a","l","a","t","i","o","n">>)
            timestamp_col   == column(<<"t","i","m","e","s","t","a","m","p">>)
            ticket_text_col == column(<<"t","i","c","k","e","t","_","t","e","x","t">>)
            rows_column(c, value) == {i \in 1..Len(df) : df[i][c] = value}
        IN  IF Len(df) = 0 THEN NoStatistics
            ELSE IF category_col = 0 THEN NoStatistics
            ELSE IF confidence_col # 0 /\ \E i \in 1..Len(df) : ~IsFloatText(df[i][confidence_col])
            THEN NoStatistics
            ELSE IF escalation_col # 0 /\ \E i \in 1..Len(df) : ~IsBoolText(df[i][escalation_col])
            THEN NoStatistics
            ELSE IF timestamp_col = 0 \/ ticket_text_col = 0 THEN NoStatistics
            ELSE
                [total_tickets |-> total_tickets,
                 category_breakdown |->
                     [c \in {df[i][category_col] : i \in 1..Len(df)} |->
                         Cardinality(rows_column(category_col, c))],
                 average_confidence |->
                     IF confidence_col = 0 THEN 0
                     ELSE Round(SumFloats(df, confidence_col) * 100,
                                total_tickets * Scale, tie) * (Scale \div 100),
                 escalation_rate |->
                     IF escalation_col = 0 THEN 0
                     ELSE Round(Cardinality(rows_column(escalation_col, str_bool(TRUE))) * 1000,
                                total_tickets, tie),
                 recent_tickets |->
                     [i \in 1..Min(5, Len(df)) |->
                         LET row == df[Len(df) - Min(5, Len(df)) + i]
                         IN  <<row[timestamp_col], row[ticket_text_col], row[category_col]>>]]

NoCall == [raises |-> FALSE, text |-> None]

Init ==
    /\ files \in SUBSET KnowledgeFiles
    /\ pc = "idle"
    /\ ticket = None
    /\ category = None
    /\ context = None
    /\ reply = None
    /\ confidence = -1
    /\ needs_escalation = FALSE
    /\ escalation_message = None
    /\ gw = NoCall
    /\ calls = <<>>
    /\ result = None
    /\ stages = <<>>
    /\ validation = NotValidated
    /\ logfile = Absent
    /\ logged = <<>>
    /\ stats = NotRead

\* process_ticket_pipeline(ticket_text) is entered.
Start(t) ==
    /\ pc = "idle"
    /\ pc' = "classify"
    /\ ticket' = t
    /\ UNCHANGED <<files, category, context, reply, confidence,
                   needs_escalation, escalation_message, gw, calls, result,
                   stages>>
    /\ UNCHANGED appvars

\* app.py, the submit button entering the pipeline without looking at the
\* verdict.
Submit_unchecked(t) ==
    /\ pc = "idle"
    /\ ticket' = t
    /\ validation' = validate_ticket_input(t)
    /\ pc' = "classify"
    /\ UNCHANGED <<files, category, context, reply, confidence,
                   needs_escalation, escalation_message, gw, calls, result,
                   stages, logfile, logged, stats>>

\* app.py, the submit button: validate_ticket_input(ticket_text), and for a
\* valid text process_ticket_pipeline(ticket_text) is entered.
Submit(t) ==
    /\ pc = "idle"
    /\ ticket' = t
    /\ validation' = validate_ticket_input(t)
    /\ pc' = IF validation'.is_valid THEN "classify" ELSE "rejected"
    /\ UNCHANGED <<files, category, context, reply, confidence,
                   needs_escalation, escalation_message, gw, calls, result,
                   stages, logfile, logged, stats>>

\* Step 1: category = classify_ticket(ticket_text)
Classify(call) ==
    /\ pc = "classify"
    /\ category' = classify_ticket(ticket, call)
    /\ gw' = call
    /\ calls' = Append(calls, "classify")
    /\ pc' = "retrieve"
    /\ UNCHANGED <<files, ticket, context, reply, confidence,
                   needs_escalation, escalation_message, result>>
    /\ stages' = Append(stages, "classify")
    /\ UNCHANGED appvars

\* Step 2: context = retrieve_context(category)
Retrieve ==
    /\ pc = "retrieve"
    /\ context' = retrieve_context(category, files)
    /\ pc' = "respond"
    /\ UNCHANGED <<files, ticket, category, reply, confidence,
                   needs_escalation, escalation_message, gw, calls, result>>
    /\ stages' = Append(stages, "retrieve")
    /\ UNCHANGED appvars

\* Step 3 calling the gateway again after a failed call.
Respond_retry(call) ==
    /\ pc = "respond"
    /\ reply' = generate_reply(ticket, context, call)
    /\ gw' = call
    /\ calls' = Append(calls, "respond")
    /\ pc' = IF call.raises THEN "respond" ELSE "score"
    /\ UNCHANGED <<files, ticket, category, context, confidence,
                   needs_escalation, escalation_message, result>>
    /\ stages' = Append(stages, "respond")
    /\ UNCHANGED appvars

\* Step 3: reply = generate_reply(ticket_text, context)
Respond(call) ==
    /\ pc = "respond"
    /\ reply' = generate_reply(ticket, context, call)
    /\ gw' = call
    /\ calls' = Append(calls, "respond")
    /\ pc' = "score"
    /\ UNCHANGED <<files, ticket, category, context, confidence,
                   needs_escalation, escalation_message, result>>
    /\ stages' = Append(stages, "respond")
    /\ UNCHANGED appvars

\* Step 4: confidence = rate_confidence(ticket_text, reply)
Score(call) ==
    /\ pc = "score"
    /\ confidence' = rate_confidence(ticket, reply, call)
    /\ gw' = call
    /\ calls' = Append(calls, "score")
    /\ pc' = "decide"
    /\ UNCHANGED <<files, ticket, category, context, reply,
                   needs_escalation, escalation_message, result>>
    /\ stages' = Append(stages, "score")
    /\ UNCHANGED appvars

\* Step 5: should_escalate(confidence), and the result dictionary.
Decide ==
    /\ pc = "decide"
    /\ LET d == should_escalate(confidence)
       IN  /\ needs_escalation' = d[1]
           /\ escalation_message' = d[2]
           /\ result' = [original_ticket    |-> ticket,
                         category           |-> category,
                         context            |-> context,
                         reply              |-> reply,
                         confidence_score   |-> confidence,
                         needs_escalation   |-> d[1],
                         escalation_message |-> d[2]]
    /\ pc' = "done"
    /\ UNCHANGED <<files, ticket, category, context, reply, confidence, gw, calls>>
    /\ stages' = Append(stages, "decide")
    /\ UNCHANGED appvars

Next ==
    \/ \E t \in ExampleTickets : Start(t)
    \/ \E call \in ClassifyCalls : Classify(call)
    \/ Retrieve
    \/ \E call \in ReplyCalls : Respond(call)
    \/ \E call \in ScoreCalls : Score(call)
    \/ Decide

Spec == Init /\ [][Next]_vars

\* The start with every knowledge file present.
InitAllFiles == Init /\ files = KnowledgeFiles

\* The gateway failing on every call, with one more error text.
OutageErrorTexts ==
    ErrorTexts \cup { <<"e","r","r","n","o"," ","1","1","1">> }

Outage == [raises : {TRUE}, text : OutageErrorTexts]

NextOutage ==
    \/ \E t \in ExampleTickets : Start(t)
    \/ \E call \in Outage : Classify(call)
    \/ Retrieve
    \/ \E call \in Outage : Respond(call)
    \/ \E call \in Outage : Score(call)
    \/ Decide

SpecOutage == Init /\ [][NextOutage]_vars

\* str(e) of errors that are no failure of the dependency: generate_text
\* returned no string, so that response.strip() raised AttributeError.
DefectTexts ==
    { <<"'","N","o","n","e","T","y","p","e","'"," ","o","b","j","e","c","t"," ","h","a","s"," ","n","o"," ","a","t","t","r","i","b","u","t","e"," ","'","s","t","r","i","p","'">>,
      <<"'","d","i","c","t","'"," ","o","b","j","e","c","t"," ","h","a","s"," ","n","o"," ","a","t","t","r","i","b","u","t","e"," ","'","s","t","r","i","p","'">> }

Defects == [raises : {TRUE}, text : DefectTexts]

\* Every call of a stage runs into such an error.
NextDefect ==
    \/ \E t \in ExampleTickets : Start(t)
    \/ \E call \in Defects : Classify(call)
    \/ Retrieve
    \/ \E call \in Defects : Respond(call)
    \/ \E call \in Defects : Score(call)
    \/ Decide

SpecDefect == Init /\ [][NextDefect]_vars

\* The validation of a submitted text alone.
NextValidate == \E t \in ValidationTickets : Submit(t)

SpecValidate == InitAllFiles /\ [][NextValidate]_vars

\* The scorer and the escalation policy on more replies and scores, with
\* every knowledge file present.
NextScore ==
    \/ \E t \in ExampleTickets : Start(t)
    \/ \E call \in ClassifyCalls : Classify(call)
    \/ Retrieve
    \/ \E call \in ReplyCalls \cup [raises : {FALSE}, text : MoreReplyTexts] : Respond(call)
    \/ \E call \in ScoreCalls \cup [raises : {FALSE}, text : MoreScoreTexts] : Score(call)
    \/ Decide

SpecScore == InitAllFiles /\ [][NextScore]_vars

\* The classifier on tickets that repeat keywords, the gateway failing or
\* answering with no label.
FallbackCalls == Failures \cup {[raises |-> FALSE, text |-> <<"h","i","g","h">>]}

NextFallback ==
    \/ \E t \in KeywordTickets : Start(t)
    \/ \E call \in FallbackCalls : Classify(call)

SpecFallback == InitAllFiles /\ [][NextFallback]_vars

\* The classifier alone, on every ticket of at most MaxWords words.
NextClassify ==
    \/ \E t \in Tickets : Start(t)
    \/ \E call \in ClassifyCalls : Classify(call)

\* The file system plays no part in classification: every file is present.
InitClassify == Init /\ files = KnowledgeFiles

SpecClassify == InitClassify /\ [][NextClassify]_vars

\* The records that log_ticket_to_csv is called with directly: two scores
\* around the threshold and the two ends of the range, escalated or not,
\* and one record whose ticket and reply are longer than the log keeps.
LogScores == {0, (65 * Scale) \div 100, Scale}

LogRecords ==
    { [original_ticket    |-> WifiTicket,
       category           |-> IT,
       context            |-> NoPolicyFound,
       reply              |-> Reply150,
       confidence_score   |-> x,
       needs_escalation   |-> b,
       escalation_message |-> IF b THEN EscalationMessage ELSE <<>>]
      : x \in LogScores, b \in BOOLEAN }
    \cup
    { [original_ticket    |-> Repeat("x", TicketTextLimit + 1),
       category           |-> Other,
       context            |-> NoPolicyFound,
       reply              |-> Repeat("y", FinalReplyLimit + 1),
       confidence_score   |-> (5 * Scale) \div 10,
       needs_escalation   |-> TRUE,
       escalation_message |-> EscalationMessage] }

\* log_ticket_to_csv(ticket_data)
LogTicket(ticket_data) ==
    /\ pc = "idle"
    /\ Len(logged) < MaxLogged
    /\ logfile' = log_ticket_to_csv(logfile, ticket_data)
    /\ logged' = Append(logged, ticket_data)
    /\ UNCHANGED <<files, pc, ticket, category, context, reply, confidence,
                   needs_escalation, escalation_message, gw, calls, result,
                   stages, validation, stats>>

\* create_sample_logs_if_empty()
CreateSamples ==
    /\ pc = "idle"
    /\ logfile' = create_sample_logs_if_empty(logfile)
    /\ logged' = IF IsEmptyLog(logfile) THEN logged \o sample_tickets ELSE logged
    /\ UNCHANGED <<files, pc, ticket, category, context, reply, confidence,
                   needs_escalation, escalation_message, gw, calls, result,
                   stages, validation, stats>>

\* get_ticket_statistics()
ReadStatistics ==
    /\ pc = "idle"
    /\ \E tie \in TieDirections : stats' = get_ticket_statistics(logfile, tie)
    /\ UNCHANGED <<files, pc, ticket, category, context, reply, confidence,
                   needs_escalation, escalation_message, gw, calls, result,
                   stages, validation, logfile, logged>>

NextLog ==
    \/ \E ticket_data \in LogRecords : LogTicket(ticket_data)
    \/ CreateSamples
    \/ ReadStatistics

\* The state before anything ran, at the given place of the program and
\* with the given logs.csv; every knowledge file is present.
InitAt(place, file) ==
    /\ files = KnowledgeFiles
    /\ pc = place
    /\ ticket = None
    /\ category = None
    /\ context = None
    /\ reply = None
    /\ confidence = -1
    /\ needs_escalation = FALSE
    /\ escalation_message = None
    /\ gw = NoCall
    /\ calls = <<>>
    /\ result = None
    /\ stages = <<>>
    /\ validation = NotValidated
    /\ logfile = file
    /\ logged = <<>>
    /\ stats = NotRead

\* logs.csv before the program touches it: absent, of zero bytes, or with a
\* header and records.
InitialLogs ==
    { Absent,
      File(<<>>),
      File(<<headers>>),
      File(<<headers, row_data(sample_tickets[1])>>) }

\* The three functions of the log called in any order, from any log file.
InitLog == \E file \in InitialLogs : InitAt("idle", file)

SpecLog == InitLog /\ [][NextLog]_vars

\* The same, from a missing log file: every row is one the program wrote.
InitStats == InitAt("idle", Absent)

SpecStats == InitStats /\ [][NextLog]_vars

\* app.py, main() down to the submit button: create_sample_logs_if_empty()
\* and the statistics panel.
Main ==
    /\ pc = "start"
    /\ logfile' = create_sample_logs_if_empty(logfile)
    /\ logged' = IF IsEmptyLog(logfile) THEN logged \o sample_tickets ELSE logged
    /\ \E tie \in TieDirections : stats' = get_ticket_statistics(logfile', tie)
    /\ pc' = "idle"
    /\ UNCHANGED <<files, ticket, category, context, reply, confidence,
                   needs_escalation, escalation_message, gw, calls, result,
                   stages, validation>>

\* app.py, after process_ticket_pipeline returned: log_ticket_to_csv(results)
LogResult ==
    /\ pc = "done"
    /\ logfile' = log_ticket_to_csv(logfile, result)
    /\ logged' = Append(logged, result)
    /\ pc' = "logged"
    /\ UNCHANGED <<files, ticket, category, context, reply, confidence,
                   needs_escalation, escalation_message, gw, calls, result,
                   stages, validation, stats>>

\* The script has run to its end; the next interaction runs main() again
\* with fresh local variables.
Rerun ==
    /\ pc \in {"rejected", "logged"}
    /\ Len(logged) < Len(sample_tickets) + MaxSubmissions
    /\ pc' = "start"
    /\ ticket' = None
    /\ category' = None
    /\ context' = None
    /\ reply' = None
    /\ confidence' = -1
    /\ needs_escalation' = FALSE
    /\ escalation_message' = None
    /\ gw' = NoCall
    /\ calls' = <<>>
    /\ result' = None
    /\ stages' = <<>>
    /\ validation' = NotValidated
    /\ UNCHANGED <<files, logfile, logged, stats>>

\* The tickets submitted to the application: the examples and one ticket
\* that the repetition check rejects.
AppTickets == ExampleTickets \cup {WifiTicket}

\* One answer and one failure of the gateway for each agent.
AppFailure == [raises |-> TRUE, text |-> <<"t","i","m","e","d"," ","o","u","t">>]

AppClassifyCalls == {[raises |-> FALSE, text |-> <<"I","T">>], AppFailure}

AppReplyCalls == {[raises |-> FALSE, text |-> <<"O","p","e","n"," ","t","h","e"," ","p","o","r","t","a","l",".">>], AppFailure}

AppScoreCalls == {[raises |-> FALSE, text |-> <<"0",".","8","5">>], AppFailure}

NextApp ==
    \/ Main
    \/ \E t \in AppTickets : Submit(t)
    \/ \E call \in AppClassifyCalls : Classify(call)
    \/ Retrieve
    \/ \E call \in AppReplyCalls : Respond(call)
    \/ \E call \in AppScoreCalls : Score(call)
    \/ Decide
    \/ LogResult
    \/ Rerun

InitApp == InitAt("start", Absent)

SpecApp == InitApp /\ [][NextApp]_vars

----------------------------------------------------------------------------
(* Claims *)

\* The answer the classifier, the responder or the scorer received from the
\* gateway on the last call.
Answer == get_granite_response(gw).value

\* The last gateway call answered with one of the five labels, in any
\* letter case and with surrounding whitespace.
AnsweredLabel ==
    /\ ~gw.raises
    /\ \E i \in 1..Len(valid_categories) : valid_categories[i] = upper(strip(Answer))

Classified == pc \in {"retrieve", "respond", "score", "decide", "done"}

Retrieved == pc \in {"respond", "score", "decide", "done"}

\* C1: classify_ticket returns one of IT, HR, Finance, Admin, Other for
\* every ticket and every gateway outcome, and so the category of every
\* pipeline result is one of these five values.
C1_CategoryIsOneOfFive ==
    /\ Classified => category \in Categories
    /\ pc = "done" => result.category \in Categories

\* C2: when the gateway answers the classification prompt with a label
\* (after trimming and uppercasing), classify_ticket returns the canonical
\* label of that category, the key under which retrieve_context looks up
\* the category's policy file.
C2_LabelIsCanonical ==
    (pc = "retrieve" /\ AnsweredLabel) =>
        LET label == upper(strip(Answer))
        IN  /\ label = <<"I","T">> => category = IT
            /\ label = <<"H","R">> => category = HR
            /\ label = <<"F","I","N","A","N","C","E">> => category = Finance
            /\ label = <<"A","D","M","I","N">> => category = Admin
            /\ label = <<"O","T","H","E","R">> => category = Other
            /\ category # Other => category \in DOMAIN category_files

\* C3: when the gateway call fails, or answers with a text that is not one
\* of the five labels, classify_ticket returns what _fallback_classification
\* returns for the same ticket.
C3_FallbackOnFailure ==
    (pc = "retrieve" /\ ~AnsweredLabel) =>
        category = _fallback_classification(ticket)

\* C3 witness: the gateway failed and the keyword fallback chose HR.
C3_Witness ==
    /\ pc = "retrieve"
    /\ gw.raises
    /\ ticket = <<"l","e","a","v","e">>
    /\ category = HR

\* C4: the keyword fallback returns Other exactly when all four scores are
\* zero; otherwise it returns the category of the highest score, and among
\* several categories of the highest score the first of IT, HR, Finance,
\* Admin: one IT keyword and one HR keyword classify as IT.
C4_FallbackChoice ==
    (pc = "retrieve" /\ ~AnsweredLabel) =>
        LET sc == scores(ticket)
            order == <<IT, HR, Finance, Admin>>
        IN  /\ \A i \in 1..4 : sc[i].name = order[i]
            /\ category = Other <=> \A i \in 1..4 : sc[i].score = 0
            /\ category # Other =>
                 \E i \in 1..4 :
                    /\ category = order[i]
                    /\ \A j \in 1..4 : sc[j].score <= sc[i].score
                    /\ \A j \in 1..(i - 1) : sc[j].score < sc[i].score
            /\ ticket \in {<<"V","P","N"," ","l","e","a","v","e">>, <<"l","e","a","v","e"," ","V","P","N">>} => category = IT

\* C4 witness: a ticket with one IT keyword and one HR keyword, the HR
\* keyword first, went through the fallback and was classified IT.
C4_Witness ==
    /\ pc = "retrieve"
    /\ gw.raises
    /\ ticket = <<"l","e","a","v","e"," ","V","P","N">>
    /\ scores(ticket)[1].score = 1
    /\ scores(ticket)[2].score = 1
    /\ category = IT

\* C5: retrieve_context("Finance") with the reimbursement and the salary
\* file present returns the two texts, in that order, joined by one blank
\* line, and retrieve_context("Admin") with the hardware-issuance and the
\* holiday-calendar file present does the same with those two texts.
C5_TwoFilesJoined ==
    /\ ( /\ Retrieved
         /\ category = Finance
         /\ {"reimbursement_policy.txt", "salary_policy.txt"} \subseteq files )
       => context = strip(FileText("reimbursement_policy.txt")) \o <<"\n", "\n">>
                       \o strip(FileText("salary_policy.txt"))
    /\ ( /\ Retrieved
         /\ category = Admin
         /\ {"hardware_issuance.txt", "holiday_calendar.txt"} \subseteq files )
       => context = strip(FileText("hardware_issuance.txt")) \o <<"\n", "\n">>
                       \o strip(FileText("holiday_calendar.txt"))

\* C6: retrieve_context returns "No policy found." exactly when none of the
\* files of the category is present (IT: the VPN policy; HR: the leave
\* policy; Finance: reimbursement and salary; Admin: hardware issuance and
\* holiday calendar; Other: none).
C6_SentinelIffNoFile ==
    (Retrieved /\ category \in Categories) =>
        LET mapped ==
                CASE category = IT      -> {"vpn_policy.txt"}
                  [] category = HR      -> {"leave_policy.txt"}
                  [] category = Finance -> {"reimbursement_policy.txt", "salary_policy.txt"}
                  [] category = Admin   -> {"hardware_issuance.txt", "holiday_calendar.txt"}
                  [] category = Other   -> {}
        IN  context = NoPolicyFound <=> mapped \cap files = {}

\* C7: when the gateway call of generate_reply fails, generate_reply
\* returns the fixed apology sentence, the same for every failure, after
\* exactly one gateway call of its own.
C7_FixedApologyOnFailure ==
    (pc = "score" /\ gw.raises) =>
        /\ reply = FallbackReply
        /\ calls = <<"classify", "respond">>

\* C8: the reply of every pipeline result is a non-empty string.
C8_ReplyNonEmpty ==
    pc = "done" => Len(result.reply) > 0

\* C9: rate_confidence returns a value in [0.0, 1.0] for every reply and
\* every gateway outcome, and so the confidence_score of every pipeline
\* result is in [0.0, 1.0].
C9_ConfidenceInRange ==
    /\ pc \in {"decide", "done"} => (0 <= confidence /\ confidence <= Scale)
    /\ pc = "done" => (0 <= result.confidence_score /\ result.confidence_score <= Scale)

\* C9 witness: a result whose reply holds all four failure terms and whose
\* score is the heuristic one, which the clamp raised to 0.0.
C9_Witness ==
    /\ pc = "done"
    /\ \A i \in 1..Len(error_terms) : Contains(lower(reply), error_terms[i])
    /\ first_number(Answer) = <<>>
    /\ result.confidence_score = 0

\* C10: rate_confidence returns the value of the first number of the
\* gateway's response when the call succeeds and the response holds one;
\* when the call fails, or the response holds none, it returns the
\* heuristic fallback score of the reply.
C10_ParsedOrHeuristic ==
    pc = "decide" =>
        IF ~gw.raises /\ first_number(Answer) # <<>>
        THEN confidence = float(first_number(Answer)[1])
        ELSE confidence = _calculate_fallback_confidence(ticket, reply)

\* C11: the heuristic fallback score of a reply, in hundredths, is
\* clamp(50 + 10*[length > 100] + 5*(specificity terms present)
\* - 20*(failure terms present), 0, 100), each term counted once however
\* often it occurs; a reply of 150 characters with contact and policy and
\* no failure term scores 0.70.
C11_HeuristicScore ==
    (pc = "decide" /\ first_number(Answer) = <<>>) =>
        LET text == lower(reply)
            long == IF Len(reply) > 100 THEN 1 ELSE 0
            nspecific == Cardinality({i \in 1..Len(specific_terms) :
                                        \E k \in 1..Len(text) :
                                            /\ k + Len(specific_terms[i]) - 1 <= Len(text)
                                            /\ \A m \in 1..Len(specific_terms[i]) :
                                                  text[k + m - 1] = specific_terms[i][m]})
            nfailure == Cardinality({i \in 1..Len(error_terms) :
                                        \E k \in 1..Len(text) :
                                            /\ k + Len(error_terms[i]) - 1 <= Len(text)
                                            /\ \A m \in 1..Len(error_terms[i]) :
                                                  text[k + m - 1] = error_terms[i][m]})
            raw == 50 + 10 * long + 5 * nspecific - 20 * nfailure
            hundredths == IF raw < 0 THEN 0 ELSE IF raw > 100 THEN 100 ELSE raw
        IN  /\ Len(specific_terms) = 6
            /\ Len(error_terms) = 4
            /\ confidence * 100 = hundredths * Scale
            /\ reply = Reply150 => confidence * 100 = 70 * Scale

\* C11 witness: the 150-character reply, with "contact" occurring twice,
\* was scored by the heuristic at 0.70.
C11_Witness ==
    /\ pc = "decide"
    /\ first_number(Answer) = <<>>
    /\ reply = Reply150
    /\ Len(reply) = 150
    /\ count(lower(reply), specific_terms[1]) = 2
    /\ confidence * 100 = 70 * Scale

\* C12: should_escalate returns (True, the forwarding message) exactly when
\* the score is below 0.6 and (False, "") exactly when it is 0.6 or more;
\* so in every pipeline result needs_escalation is true iff
\* confidence_score < 0.6, and escalation_message is empty iff
\* needs_escalation is false.
C12_EscalationThreshold ==
    pc = "done" =>
        /\ result.needs_escalation <=> (result.confidence_score * 10 < 6 * Scale)
        /\ result.needs_escalation => result.escalation_message = EscalationMessage
        /\ ~result.needs_escalation => result.escalation_message = <<>>
        /\ result.needs_escalation = needs_escalation
        /\ result.escalation_message = escalation_message

\* C12 witness: a result with a score of exactly 0.6, not escalated.
C12_Witness ==
    /\ pc = "done"
    /\ result.confidence_score * 10 = 6 * Scale
    /\ ~result.needs_escalation
    /\ result.escalation_message = <<>>

\* C13: for every ticket, every combination of gateway outcomes and of
\* present or absent knowledge files, process_ticket_pipeline runs to its
\* end and returns a result with all seven fields set; it has no error
\* state: the stage a run is about to execute returns a value, whatever
\* the outcome of its gateway call, and the finished run holds a complete
\* result.
C13_PipelineCompletes ==
    /\ pc \in {"idle", "classify", "retrieve", "respond", "score", "decide", "done"}
    /\ pc = "classify" =>
          \A call \in ClassifyCalls : classify_ticket(ticket, call) # None
    /\ pc = "retrieve" => retrieve_context(category, files) # None
    /\ pc = "respond" =>
          \A call \in ReplyCalls : generate_reply(ticket, context, call) # None
    /\ pc = "score" =>
          \A call \in ScoreCalls : rate_confidence(ticket, reply, call) \in 0..Scale
    /\ pc = "decide" => should_escalate(confidence)[1] \in BOOLEAN
    /\ pc = "done" =>
          /\ DOMAIN result = {"original_ticket", "category", "context", "reply",
                              "confidence_score", "needs_escalation",
                              "escalation_message"}
          /\ result.original_ticket = ticket
          /\ result.category # None
          /\ result.context # None
          /\ result.reply # None
          /\ result.confidence_score \in 0..Scale
          /\ result.needs_escalation \in BOOLEAN
          /\ result.escalation_message # None

\* C13 witness: a complete result of a run in which the knowledge file was
\* missing and the calls of the responder and of the scorer failed.
C13_Witness ==
    /\ pc = "done"
    /\ gw.raises
    /\ result.context = NoPolicyFound
    /\ \E e \in ErrorTexts : result.reply = GatewayApology \o e
    /\ result.category # None

\* C14: when the gateway fails on every call of a run, the reply is the
\* apology text, the heuristic score of that text is lowered by at least
\* one failure term, the confidence_score is below 0.6 and
\* needs_escalation is true.
C14_OutageEscalates ==
    pc = "done" =>
        /\ \/ result.reply = FallbackReply
           \/ \E e \in OutageErrorTexts : result.reply = GatewayApology \o e
        /\ \E i \in 1..Len(error_terms) : Contains(lower(result.reply), error_terms[i])
        /\ result.confidence_score * 10 < 6 * Scale
        /\ result.needs_escalation

\* C20: every run executes Classify, Retrieve, Respond, Score, Decide once
\* each, in this order, and issues exactly three gateway calls: one by
\* classify, one by respond, one by score.
C20_StagesInOrder ==
    LET order == <<"classify", "retrieve", "respond", "score", "decide">>
        done  == CASE pc = "idle"     -> 0
                   [] pc = "classify" -> 0
                   [] pc = "retrieve" -> 1
                   [] pc = "respond"  -> 2
                   [] pc = "score"    -> 3
                   [] pc = "decide"   -> 4
                   [] pc = "done"     -> 5
    IN  /\ stages = SubSeq(order, 1, done)
        /\ calls = SubSeq(<<"classify", "respond", "score">>, 1,
                          IF done >= 4 THEN 3 ELSE IF done = 3 THEN 2
                          ELSE IF done >= 1 THEN 1 ELSE 0)
        /\ pc = "done" => (Len(stages) = 5 /\ Len(calls) = 3)

\* C20 witness: a finished run in which the calls of the responder and of
\* the scorer failed, with five stages and three gateway calls.
C20_Witness ==
    /\ pc = "done"
    /\ gw.raises
    /\ \E e \in ErrorTexts : reply = GatewayApology \o e
    /\ stages = <<"classify", "retrieve", "respond", "score", "decide">>
    /\ calls = <<"classify", "respond", "score">>

Submitted == pc # "idle" /\ validation # NotValidated

\* C15: validate_ticket_input rejects every text that is empty or only
\* whitespace and every text whose trimmed length is below 10 or above
\* 2000, and rejects no text for its length when the trimmed length is in
\* 10..2000: 10 and 2000 pass the length check, 9 and 2001 do not.
C15_LengthLimits ==
    Submitted =>
        LET n == Len(strip(ticket))
            length_messages ==
                {"Please enter a ticket description.",
                 "Ticket description must be at least 10 characters long.",
                 "Ticket description must be less than 2000 characters."}
        IN  /\ (n < 10 \/ n > 2000) =>
                  /\ ~validation.is_valid
                  /\ validation.error_message \in length_messages
                  /\ pc = "rejected"
            /\ (10 <= n /\ n <= 2000) =>
                  validation.error_message \notin length_messages

\* C15 witness: a text of 2000 characters with whitespace around it was
\* accepted.
C15_Witness ==
    /\ Submitted
    /\ Len(strip(ticket)) = 2000
    /\ Len(ticket) > 2000
    /\ validation.is_valid
    /\ pc = "classify"

\* C16: among the texts that pass the emptiness and length checks, a text
\* is rejected if and only if its first whitespace-delimited token occurs
\* more than 5 times in the text as a token; a first token that only
\* occurs inside other words does not count.
C16_RepeatedFirstToken ==
    (Submitted /\ 10 <= Len(strip(ticket)) /\ Len(strip(ticket)) <= 2000) =>
        LET tokens == split(lower(ticket))
            repeats == Cardinality({i \in 1..Len(tokens) : tokens[i] = tokens[1]})
        IN  ~validation.is_valid <=> repeats > 5

\* A stage of the pipeline is running or the pipeline has returned.
InPipeline == pc \in {"classify", "retrieve", "respond", "score", "decide", "done", "logged"}

\* C17: in the submit flow a rejected ticket never reaches the pipeline:
\* for it no stage runs, no gateway call is made and no record is appended
\* to the log; the pipeline runs only for an accepted ticket, and the only
\* record appended after the start-up samples is the result the pipeline
\* returned for an accepted ticket.
C17_RejectedNeverProcessed ==
    [][ /\ (validation' # NotValidated /\ ~validation'.is_valid) =>
              /\ pc' = "rejected"
              /\ stages' = <<>>
              /\ calls' = <<>>
              /\ logfile' = logfile
              /\ logged' = logged
        /\ (InPipeline' \/ stages' # <<>> \/ calls' # <<>>) =>
              /\ validation'.is_valid
              /\ validate_ticket_input(ticket').is_valid
        /\ (logfile' # logfile \/ logged' # logged) =>
              \/ pc = "start"
              \/ /\ pc = "done"
                 /\ validation.is_valid
                 /\ Len(stages) = 5
                 /\ result.original_ticket = ticket
                 /\ logged' = Append(logged, result)
                 /\ logfile'.rows = Append(logfile.rows, row_data(result))
      ]_vars

\* C17 witness: after an accepted ticket was processed and logged, a
\* rejected ticket was submitted; no stage ran and the log holds the
\* samples and the one record.
C17_Witness ==
    /\ pc = "rejected"
    /\ ~validation.is_valid
    /\ stages = <<>>
    /\ calls = <<>>
    /\ Len(logged) = Len(sample_tickets) + 1
    /\ Len(logfile.rows) = Len(logged) + 1

\* A row that log_ticket_to_csv writes for a record.
IsDataRow(row) ==
    /\ row # headers
    /\ Len(row) = Len(headers)
    /\ IsFloatText(row[4])
    /\ IsBoolText(row[6])

\* C18: after any calls of log_ticket_to_csv and
\* create_sample_logs_if_empty, from a log file that was absent, of zero
\* bytes or held a header and records, the log file starts with exactly
\* one header row and every later row is a data record.
C18_OneHeaderRow ==
    Len(logged) > 0 =>
        /\ logfile.exists
        /\ Len(logfile.rows) > 0
        /\ logfile.rows[1] = headers
        /\ \A i \in 2..Len(logfile.rows) : IsDataRow(logfile.rows[i])

RECURSIVE SumConfidence(_)
SumConfidence(records) ==
    IF Len(records) = 0 THEN 0
    ELSE Head(records).confidence_score + SumConfidence(Tail(records))

Escalated(records) ==
    Cardinality({i \in 1..Len(records) : records[i].needs_escalation})

Abs(x) == IF x < 0 THEN -x ELSE x

\* C19 as stated: from every log the program itself wrote and for every
\* record, logging the record and reading the statistics gives a
\* total_tickets one higher than before, an average_confidence equal to
\* the mean confidence and an escalation_rate equal to the escalated
\* percentage of the earlier records and the new one.
C19_ExactStatistics ==
    \A ticket_data \in LogRecords : \A tie \in TieDirections :
        LET before  == get_ticket_statistics(logfile, tie)
            after   == get_ticket_statistics(log_ticket_to_csv(logfile, ticket_data), tie)
            records == Append(logged, ticket_data)
            n       == Len(records)
        IN  /\ after.total_tickets = before.total_tickets + 1
            /\ after.average_confidence * n = SumConfidence(records)
            /\ after.escalation_rate * n = Escalated(records) * 1000

\* C19 amended: the total is one higher than before, average_confidence is
\* the mean confidence rounded to two decimals and escalation_rate is the
\* escalated percentage rounded to one decimal: a whole number of
\* hundredths, and of tenths of a percent, at most half a unit away.
C19_RoundedStatistics ==
    \A ticket_data \in LogRecords : \A tie \in TieDirections :
        LET before  == get_ticket_statistics(logfile, tie)
            after   == get_ticket_statistics(log_ticket_to_csv(logfile, ticket_data), tie)
            records == Append(logged, ticket_data)
            n       == Len(records)
        IN  /\ after.total_tickets = before.total_tickets + 1
            /\ after.total_tickets = n
            /\ after.average_confidence % (Scale \div 100) = 0
            /\ 2 * Abs(after.average_confidence * n - SumConfidence(records))
                   <= n * (Scale \div 100)
            /\ 2 * Abs(after.escalation_rate * n - Escalated(records) * 1000) <= n

\* C19 witness: starting from no log file, three records were logged one
\* by one and the statistics read: the total is 3 and the average had to
\* be rounded.
C19_Witness ==
    /\ Len(logged) = 3
    /\ logged # sample_tickets
    /\ stats.total_tickets = 3
    /\ stats.average_confidence * 3 # SumConfidence(logged)
    /\ 2 * Abs(stats.average_confidence * 3 - SumConfidence(logged)) <= 3 * (Scale \div 100)

\* The total number of occurrences of a category's keywords in the lowered
\* ticket text.
Occurrences(keywords, ticket_text) == SumCounts(keywords, lower(ticket_text))

occurrence_scores(ticket_text) ==
    << [name |-> IT,      score |-> Occurrences(it_keywords, ticket_text)],
       [name |-> HR,      score |-> Occurrences(hr_keywords, ticket_text)],
       [name |-> Finance, score |-> Occurrences(finance_keywords, ticket_text)],
       [name |-> Admin,   score |-> Occurrences(admin_keywords, ticket_text)] >>

\* C21: in the keyword fallback a category's score is the total number of
\* case-insensitive substring occurrences of its keywords in the ticket, so
\* a category whose keywords occur more often than those of every other
\* category is the one returned: one IT keyword three times beats two HR
\* keywords once each.
C21_ScoreCountsOccurrences ==
    (pc = "retrieve" /\ ~AnsweredLabel) =>
        LET sc == occurrence_scores(ticket)
        IN  \A i \in 1..Len(sc) :
                (\A j \in 1..Len(sc) : j # i => sc[j].score < sc[i].score)
                    => category = sc[i].name

\* C22: a stage that hits an error which is neither a failure of the
\* gateway dependency nor a missing or unreadable knowledge file does not
\* swallow it: the error leaves the stage and process_ticket_pipeline, so
\* the pipeline stops with the error raised and no later stage runs on a
\* fallback result.
C22_DefectPropagates ==
    (stages # <<>> /\ gw \in Defects) =>
        /\ pc = "raised"
        /\ result = None

\* C23: get_granite_response never raises: when the set-up or the text
\* generation throws it returns a non-empty apology that holds the error
\* text, so the three agents receive a string from every gateway call and
\* go on in their try branch: the reply is that apology, not
\* generate_reply's own sentence, and the score is parsed from the apology
\* when it holds a number.
C23_AdapterNeverRaises ==
    gw # NoCall =>
        LET response == get_granite_response(gw)
        IN  /\ ~response.raised
            /\ gw.raises =>
                  /\ Len(response.value) > 0
                  /\ SubSeq(response.value, 1, Len(GatewayApology)) = GatewayApology
                  /\ SubSeq(response.value, Len(GatewayApology) + 1, Len(response.value)) = gw.text
            /\ (gw.raises /\ pc = "retrieve") =>
                  category = _fallback_classification(ticket)
            /\ (gw.raises /\ pc = "score") =>
                  /\ reply = response.value
                  /\ reply # FallbackReply
            /\ (gw.raises /\ pc = "decide") =>
                  confidence =
                      IF first_number(response.value) # <<>>
                      THEN Max(0, Min(Scale, float(first_number(response.value)[1])))
                      ELSE _calculate_fallback_confidence(ticket, reply)

\* C23 witness: the gateway call of generate_reply failed and the reply is
\* the adapter's apology with the error text; then the call of
\* rate_confidence failed and the score was parsed from its apology.
C23_Witness ==
    /\ pc = "decide"
    /\ gw.raises
    /\ \E e \in OutageErrorTexts : reply = GatewayApology \o e
    /\ first_number(get_granite_response(gw).value) # <<>>
    /\ confidence = Scale

====
